---- MODULE Spec2Model ----
(***************************************************************************)
(* Model of src/api_trt/modules/processing.py: the Serializer, the         *)
(* serialize_face record builder and the Processing.extract / embed /      *)
(* embed_crops orchestration.                                              *)
(*                                                                         *)
(* Conventions.                                                            *)
(*  - A Python value that may be None is a sequence of length at most one: *)
(*    None is <<>> and a value v is <<v>>.                                 *)
(*  - A dict is a function from key strings to values; a key that was      *)
(*    never inserted is not in its DOMAIN.                                 *)
(*  - Scores and probabilities are in hundredths, coordinates in tenths of *)
(*    a pixel, so that astype(int) / int() truncate something.             *)
(*  - The locals of one call of extract are the value at r of the          *)
(*    variables below; r ranges over the calls in progress.                *)
(***************************************************************************)
EXTENDS Integers, Sequences, FiniteSets, TLC

MaxImages == 2
MaxFaces == 2

None == <<>>
Some(v) == <<v>>

\* Python truth value of an optional number: `if x:` is false for None and 0.
Truthy(x) == x /= None /\ x[1] /= 0

\* dict.get(k, default)
DictGet(d, k, default) == IF k \in DOMAIN d THEN d[k] ELSE default

\* d[k] = v  /  d.update(k=v)
DictSet(d, k, v) == [y \in DOMAIN d \cup {k} |-> IF y = k THEN v ELSE d[y]]

\* int(x) / ndarray.astype(int) on a coordinate in tenths: truncation toward 0.
AsInt(x) == IF x >= 0 THEN x \div 10 ELSE -((-x) \div 10)

AsIntList(xs) == [n \in 1..Len(xs) |-> AsInt(xs[n])]

AsIntPoints(ps) == [n \in 1..Len(ps) |-> AsIntList(ps[n])]

\* base64.b64encode(cv2.imencode('.jpg', facedata)[1].tostring()).decode('utf-8')
EncodeFaceData(pixels) == <<"base64", "jpg", pixels>>

\* traceback.format_exc()
FormatExc == Some("Traceback (most recent call last)")

(***************************************************************************)
(* Serializer                                                              *)
(***************************************************************************)
\* serializer_v1 leaving out the images without faces.
serializer_v1_skip_empty(data) ==
    LET d == SelectSeq(DictGet(data, "data", <<>>),
                       LAMBDA img : DictGet(img, "faces", None) /= <<>>)
    IN  [n \in 1..Len(d) |-> DictGet(d[n], "faces", None)]

serializer_v1(data) ==
    LET d == DictGet(data, "data", <<>>)
    IN  [n \in 1..Len(d) |-> DictGet(d[n], "faces", None)]

\* serializer_v2 rebuilding the envelope from the data list alone.
serializer_v2_rebuild(data) == [took |-> <<>>, data |-> DictGet(data, "data", <<>>)]

serializer_v2(data) == data

get_serializer(api_ver) == IF api_ver = "1" THEN "_serializer_v1" ELSE "_serializer_v2"

serialize(data, api_ver) ==
    IF get_serializer(api_ver) = "_serializer_v1"
    THEN serializer_v1(data)
    ELSE serializer_v2(data)

(***************************************************************************)
(* Face objects of the face model, and serialize_face                      *)
(***************************************************************************)
\* Face(facedata=...): every other attribute keeps its default, None.
Face(facedata) ==
    [num_det |-> None, det_score |-> None, bbox |-> None, landmark |-> None,
     gender |-> None, age |-> None, mask_prob |-> None,
     embedding_norm |-> None, normed_embedding |-> None, facedata |-> facedata]

Landmarks5 == << <<206, 259>>, <<401, 255>>, <<305, 368>>, <<228, 452>>, <<389, 449>> >>

\* A detection with every attribute populated.
DetFace ==
    [num_det |-> Some(0), det_score |-> Some(95), bbox |-> Some(<<106, 100, 504, 600>>),
     landmark |-> Some(Landmarks5), gender |-> Some(1), age |-> Some(30),
     mask_prob |-> Some(10), embedding_norm |-> Some(2),
     normed_embedding |-> Some(<<6, 8>>), facedata |-> Some("crop")]

\* An analysed crop: no detection step, the crop pixels were released.
CropFace ==
    [Face(None) EXCEPT !.embedding_norm = Some(2), !.normed_embedding = Some(<<8, 6>>),
                       !.gender = Some(0), !.age = Some(41)]

\* A detection without landmarks, crop and embedding, partly off the image.
BareFace ==
    [Face(None) EXCEPT !.num_det = Some(1), !.det_score = Some(60),
                       !.bbox = Some(<<-15, 20, 309, 400>>)]

\* A face carrying a detection score but no box.
BrokenFace == [Face(None) EXCEPT !.num_det = Some(1), !.det_score = Some(60)]

\* The faces one call of model.get may return.
ModelFaces == {DetFace, BareFace}

\* The statements of serialize_face that raise: a method call on a None
\* attribute (lines 56, 61, 62, 66) or cv2.imencode of None (line 74).
SerializeFaceRaises(face, return_face_data, return_landmarks) ==
    \/ Truthy(face.embedding_norm) /\ face.normed_embedding = None
    \/ Truthy(face.det_score) /\ face.bbox = None
    \/ Truthy(face.det_score) /\ return_landmarks /\ face.landmark = None
    \/ return_face_data /\ face.facedata = None

\* serialize_face with the landmarks emitted outside the det_score test,
\* whenever they are requested and present.
serialize_face_landmarks_outside(face, return_face_data, return_landmarks) ==
    LET d0 == [det |-> face.num_det, prob |-> None, bbox |-> None, size |-> None,
               landmarks |-> None, gender |-> face.gender, age |-> face.age,
               mask_prob |-> None, norm |-> None, vec |-> None]
        d1 == IF Truthy(face.embedding_norm)
              THEN [d0 EXCEPT !.vec = face.normed_embedding,
                              !.norm = face.embedding_norm]
              ELSE d0
        d2 == IF Truthy(face.det_score)
              THEN [d1 EXCEPT !.prob = face.det_score,
                              !.bbox = Some(AsIntList(face.bbox[1])),
                              !.size = Some(AsInt(face.bbox[1][3] - face.bbox[1][1]))]
              ELSE d1
        d3 == IF return_landmarks /\ face.landmark /= None
              THEN [d2 EXCEPT !.landmarks = Some(AsIntPoints(face.landmark[1]))]
              ELSE d2
        d4 == IF Truthy(face.mask_prob)
              THEN [d3 EXCEPT !.mask_prob = face.mask_prob]
              ELSE d3
    IN  IF return_face_data
        THEN DictSet(d4, "facedata", EncodeFaceData(face.facedata[1]))
        ELSE d4

\* serialize_face with the face image emitted whenever the face has one,
\* whatever return_face_data says.
serialize_face_always_facedata(face, return_face_data, return_landmarks) ==
    LET d0 == [det |-> face.num_det, prob |-> None, bbox |-> None, size |-> None,
               landmarks |-> None, gender |-> face.gender, age |-> face.age,
               mask_prob |-> None, norm |-> None, vec |-> None]
        d1 == IF Truthy(face.embedding_norm)
              THEN [d0 EXCEPT !.vec = face.normed_embedding,
                              !.norm = face.embedding_norm]
              ELSE d0
        d2 == IF Truthy(face.det_score)
              THEN [d1 EXCEPT !.prob = face.det_score,
                              !.bbox = Some(AsIntList(face.bbox[1])),
                              !.size = Some(AsInt(face.bbox[1][3] - face.bbox[1][1]))]
              ELSE d1
        d3 == IF Truthy(face.det_score) /\ return_landmarks
              THEN [d2 EXCEPT !.landmarks = Some(AsIntPoints(face.landmark[1]))]
              ELSE d2
        d4 == IF Truthy(face.mask_prob)
              THEN [d3 EXCEPT !.mask_prob = face.mask_prob]
              ELSE d3
    IN  IF face.facedata /= None
        THEN DictSet(d4, "facedata", EncodeFaceData(face.facedata[1]))
        ELSE d4

\* The dict serialize_face returns when no statement of it raises.
serialize_face(face, return_face_data, return_landmarks) ==
    LET d0 == [det |-> face.num_det, prob |-> None, bbox |-> None, size |-> None,
               landmarks |-> None, gender |-> face.gender, age |-> face.age,
               mask_prob |-> None, norm |-> None, vec |-> None]
        d1 == IF Truthy(face.embedding_norm)
              THEN [d0 EXCEPT !.vec = face.normed_embedding,
                              !.norm = face.embedding_norm]
              ELSE d0
        d2 == IF Truthy(face.det_score)
              THEN [d1 EXCEPT !.prob = face.det_score,
                              !.bbox = Some(AsIntList(face.bbox[1])),
                              !.size = Some(AsInt(face.bbox[1][3] - face.bbox[1][1]))]
              ELSE d1
        d3 == IF Truthy(face.det_score) /\ return_landmarks
              THEN [d2 EXCEPT !.landmarks = Some(AsIntPoints(face.landmark[1]))]
              ELSE d2
        d4 == IF Truthy(face.mask_prob)
              THEN [d3 EXCEPT !.mask_prob = face.mask_prob]
              ELSE d3
    IN  IF return_face_data
        THEN DictSet(d4, "facedata", EncodeFaceData(face.facedata[1]))
        ELSE d4

(***************************************************************************)
(* Inputs and collaborators                                                *)
(***************************************************************************)
SeqsUpTo(S, n) == UNION {[1..k -> S] : k \in 0..n}

\* What get_images returns for descriptor i when it loads: its pixels.
LoadedImage(i) == [data |-> Some("pixels " \o ToString(i)), traceback |-> None]

\* What get_images returns for descriptor i when it does not load.
FailedImage(i) == [data |-> None, traceback |-> Some("load failed " \o ToString(i))]

\* The lists get_images may return: one item per descriptor, in their order.
ImageLists ==
    UNION {{[i \in 1..n |-> IF i \in ok THEN LoadedImage(i) ELSE FailedImage(i)] :
              ok \in SUBSET (1..n)} : n \in 0..MaxImages}

\* What one call of model.get may return.
FaceLists == SeqsUpTo(ModelFaces, MaxFaces)

ApiVersions == {"1", "2", "3"}

\* What the caller passes as api_ver: nothing, or a version string.
ApiArgs == {None} \cup {Some(v) : v \in ApiVersions}

\* def serialize(self, data, api_ver: str = '1')
SerializeDefaultApiVer == "1"

\* def extract(..., api_ver: str = "1")
ExtractDefaultApiVer == "1"

\* The keyword arguments of extract that the orchestration reads.  api_ver_arg
\* is what the caller passed, api_ver the value of the parameter in the body.
Options ==
    {[embed_only |-> eo, return_face_data |-> rfd, return_landmarks |-> rl,
      verbose_timings |-> vt, api_ver_arg |-> a,
      api_ver |-> IF a = None THEN ExtractDefaultApiVer ELSE a[1]] :
        eo \in BOOLEAN, rfd \in BOOLEAN, rl \in BOOLEAN, vt \in BOOLEAN,
        a \in ApiArgs}

Reqs == {1}

VARIABLES
    pc,        \* pc[r]: where call r of extract is
    opts,      \* opts[r]: its keyword arguments
    images,    \* images[r]: the list get_images returned
    idx,       \* idx[r]: 1-based position of the `for` loop in images[r]
    output,    \* output[r]: the dict `output` of embed / embed_crops
    tm,        \* tm[r]: the time.time() readings the call keeps
    consumed,  \* consumed[r]: how many times next(faces) returned a face
    result,    \* result[r]: the value returned to the caller (None before)
    modelLog,  \* modelLog[r]: history of the calls of self.model.get
    pairs,     \* pairs[r]: history, per appended embed_crops entry, of the
               \*   input position and the stream position it was built from
    caught,    \* caught[r]: history, the position of the input during which
               \*   embed_crops caught an exception, 0 when it caught none
    clock,     \* time.time(), advanced by the collaborators' calls
    sf         \* one application of serialize_face (specification SpecFace)

vars == <<pc, opts, images, idx, output, tm, consumed, result, modelLog, pairs, caught, clock, sf>>

SfUnused == [state |-> "unused"]

Init ==
    /\ pc = [r \in Reqs |-> "idle"]
    /\ opts \in [Reqs -> Options]
    /\ images = [r \in Reqs |-> <<>>]
    /\ idx = [r \in Reqs |-> 1]
    /\ output = [r \in Reqs |-> None]
    /\ tm = [r \in Reqs |-> [t0 |-> 0, took_loading |-> 0, te0 |-> 0, t1 |-> 0, t0_crops |-> 0]]
    /\ consumed = [r \in Reqs |-> 0]
    /\ result = [r \in Reqs |-> None]
    /\ modelLog = [r \in Reqs |-> <<>>]
    /\ pairs = [r \in Reqs |-> <<>>]
    /\ caught = [r \in Reqs |-> 0]
    /\ clock = 0
    /\ sf = SfUnused

(***************************************************************************)
(* Processing.extract, up to the dispatch on embed_only                    *)
(***************************************************************************)
\* extract is called: lines 177-183, suspended at `await get_images(images)`.
ExtractCall(r) ==
    /\ pc[r] = "idle"
    /\ pc' = [pc EXCEPT ![r] = "get_images"]
    /\ tm' = [tm EXCEPT ![r].t0 = clock]
    /\ UNCHANGED <<opts, images, idx, output, consumed, result, modelLog, pairs, clock, sf, caught>>

\* dict(took={}, data=[])
EmbedOutput == [took |-> <<>>, data |-> <<>>]

\* dict(took_ms=None, data=[], status="ok")
EmbedCropsOutput == [took_ms |-> None, data |-> <<>>, status |-> "ok"]

\* get_images returns imgs: lines 183-189, then the first statements of
\* embed_crops (109-110) or of embed (139), which run without suspension.
GetImagesReturn(r, imgs) ==
    /\ pc[r] = "get_images"
    /\ clock' = clock + 1
    /\ images' = [images EXCEPT ![r] = imgs]
    /\ idx' = [idx EXCEPT ![r] = 1]
    /\ IF opts[r].embed_only
       THEN /\ pc' = [pc EXCEPT ![r] = "embed_crops"]
            /\ output' = [output EXCEPT ![r] = EmbedCropsOutput]
            /\ tm' = [tm EXCEPT ![r].took_loading = clock' - tm[r].t0,
                                ![r].t0_crops = clock']
       ELSE /\ pc' = [pc EXCEPT ![r] = "embed"]
            /\ output' = [output EXCEPT ![r] = EmbedOutput]
            /\ tm' = [tm EXCEPT ![r].took_loading = clock' - tm[r].t0,
                                ![r].te0 = clock']
    /\ UNCHANGED <<opts, consumed, result, modelLog, pairs, sf, caught>>

\* get_images raises: line 183 is in no try block.
GetImagesRaise(r) ==
    /\ pc[r] = "get_images"
    /\ clock' = clock + 1
    /\ pc' = [pc EXCEPT ![r] = "raised"]
    /\ UNCHANGED <<opts, images, idx, output, tm, consumed, result, modelLog, pairs, sf, caught>>

(***************************************************************************)
(* Processing.embed                                                        *)
(***************************************************************************)
\* dict(status='', took_ms=0., faces=[])
InitFacesDict == [status |-> "", took_ms |-> 0, faces |-> <<>>]

\* LoadFailedEntry with the failure detail replaced by a fresh trace.
LoadFailedEntry_fresh_trace(fd, image_data) ==
    DictSet([fd EXCEPT !.status = "failed"], "traceback", FormatExc)

\* lines 146-147
LoadFailedEntry(fd, image_data) ==
    DictSet([fd EXCEPT !.status = "failed"], "traceback",
            DictGet(image_data, "traceback", None))

\* lines 163-167
ExceptEntry(fd) ==
    DictSet([fd EXCEPT !.status = "failed"], "traceback", FormatExc)

\* OkEntry without line 161: the status keeps its initial value.
OkEntry_status_unset(fd, took_image) == [fd EXCEPT !.took_ms = took_image * 1000]

\* lines 159-161
OkEntry(fd, took_image) == [fd EXCEPT !.took_ms = took_image * 1000, !.status = "ok"]

\* lines 155-158: the faces are converted in order and appended one by one;
\* the first serialize_face that raises leaves the loop.
RECURSIVE ConvertFaces(_, _, _, _)
ConvertFaces(fd, faces, return_face_data, return_landmarks) ==
    IF faces = <<>>
    THEN [dict |-> fd, raised |-> FALSE]
    ELSE IF SerializeFaceRaises(Head(faces), return_face_data, return_landmarks)
         THEN [dict |-> fd, raised |-> TRUE]
         ELSE ConvertFaces(
                 [fd EXCEPT !.faces = Append(@, serialize_face(Head(faces),
                                                 return_face_data, return_landmarks))],
                 Tail(faces), return_face_data, return_landmarks)

\* AppendData inserting at the front: output['data'].insert(0, ...).
AppendData_insert_front(out, entry) == [out EXCEPT !.data = <<entry>> \o @]

\* output['data'].append(_faces_dict)
AppendData(out, entry) == [out EXCEPT !.data = Append(@, entry)]

\* One iteration on an image that carries a load traceback: 142-147, 169.
EmbedLoadFailure(r) ==
    /\ pc[r] = "embed"
    /\ idx[r] <= Len(images[r])
    /\ DictGet(images[r][idx[r]], "traceback", None) /= None
    /\ output' = [output EXCEPT ![r] =
                    AppendData(@, LoadFailedEntry(InitFacesDict, images[r][idx[r]]))]
    /\ idx' = [idx EXCEPT ![r] = @ + 1]
    /\ UNCHANGED <<pc, opts, images, tm, consumed, result, modelLog, pairs, clock, sf, caught>>

\* EmbedModelCall that starts the call and goes on to the next image without
\* awaiting it (the calls gathered instead of awaited one by one).
EmbedModelCall_not_awaited(r) ==
    /\ pc[r] = "embed"
    /\ idx[r] <= Len(images[r])
    /\ DictGet(images[r][idx[r]], "traceback", None) = None
    /\ idx' = [idx EXCEPT ![r] = @ + 1]
    /\ tm' = [tm EXCEPT ![r].t1 = clock]
    /\ modelLog' = [modelLog EXCEPT ![r] =
                      Append(@, [image |-> idx[r],
                                 arg |-> DictGet(images[r][idx[r]], "data", None),
                                 outcome |-> "pending", faces |-> <<>>])]
    /\ UNCHANGED <<pc, opts, images, output, consumed, result, pairs, clock, sf, caught>>

\* One iteration on a loaded image, up to the suspension at
\* `await self.model.get(image, ...)`: 142-153.
EmbedModelCall(r) ==
    /\ pc[r] = "embed"
    /\ idx[r] <= Len(images[r])
    /\ DictGet(images[r][idx[r]], "traceback", None) = None
    /\ pc' = [pc EXCEPT ![r] = "model_get"]
    /\ tm' = [tm EXCEPT ![r].t1 = clock]
    /\ modelLog' = [modelLog EXCEPT ![r] =
                      Append(@, [image |-> idx[r],
                                 arg |-> DictGet(images[r][idx[r]], "data", None),
                                 outcome |-> "pending", faces |-> <<>>])]
    /\ UNCHANGED <<opts, images, idx, output, consumed, result, pairs, clock, sf, caught>>

\* ModelGetReturn appending to one list shared by the calls in progress
\* (`output` kept on the Processing instance instead of being a local).
ModelGetReturn_shared(r, faces) ==
    /\ pc[r] = "model_get"
    /\ clock' = clock + 1
    /\ LET conv == ConvertFaces(InitFacesDict, faces, opts[r].return_face_data,
                                opts[r].return_landmarks)
           entry == IF conv.raised
                    THEN ExceptEntry(conv.dict)
                    ELSE OkEntry(conv.dict, clock' - tm[r].t1)
       IN  output' = [q \in DOMAIN output |->
                        IF pc[q] \in {"embed", "model_get"}
                        THEN AppendData(output[q], entry)
                        ELSE output[q]]
    /\ modelLog' = [modelLog EXCEPT ![r][Len(modelLog[r])].outcome = "returned",
                                    ![r][Len(modelLog[r])].faces = faces]
    /\ idx' = [idx EXCEPT ![r] = @ + 1]
    /\ pc' = [pc EXCEPT ![r] = "embed"]
    /\ UNCHANGED <<opts, images, tm, consumed, result, pairs, sf, caught>>

\* model.get returns faces: 155-161 or, when serialize_face raises, 163-167;
\* then 169.
ModelGetReturn(r, faces) ==
    /\ pc[r] = "model_get"
    /\ clock' = clock + 1
    /\ LET conv == ConvertFaces(InitFacesDict, faces, opts[r].return_face_data,
                                opts[r].return_landmarks)
           entry == IF conv.raised
                    THEN ExceptEntry(conv.dict)
                    ELSE OkEntry(conv.dict, clock' - tm[r].t1)
       IN  output' = [output EXCEPT ![r] = AppendData(@, entry)]
    /\ modelLog' = [modelLog EXCEPT ![r][Len(modelLog[r])].outcome = "returned",
                                    ![r][Len(modelLog[r])].faces = faces]
    /\ idx' = [idx EXCEPT ![r] = @ + 1]
    /\ pc' = [pc EXCEPT ![r] = "embed"]
    /\ UNCHANGED <<opts, images, tm, consumed, result, pairs, sf, caught>>

\* ModelGetRaise with the except clause leaving the loop (a `break`).
ModelGetRaise_break(r) ==
    /\ pc[r] = "model_get"
    /\ clock' = clock + 1
    /\ output' = [output EXCEPT ![r] = AppendData(@, ExceptEntry(InitFacesDict))]
    /\ modelLog' = [modelLog EXCEPT ![r][Len(modelLog[r])].outcome = "raised"]
    /\ idx' = [idx EXCEPT ![r] = Len(images[r]) + 1]
    /\ pc' = [pc EXCEPT ![r] = "embed"]
    /\ UNCHANGED <<opts, images, tm, consumed, result, pairs, sf, caught>>

\* model.get raises: 163-167, then 169.
ModelGetRaise(r) ==
    /\ pc[r] = "model_get"
    /\ clock' = clock + 1
    /\ output' = [output EXCEPT ![r] = AppendData(@, ExceptEntry(InitFacesDict))]
    /\ modelLog' = [modelLog EXCEPT ![r][Len(modelLog[r])].outcome = "raised"]
    /\ idx' = [idx EXCEPT ![r] = @ + 1]
    /\ pc' = [pc EXCEPT ![r] = "embed"]
    /\ UNCHANGED <<opts, images, tm, consumed, result, pairs, sf, caught>>

\* WithTimings without the test of line 202.
WithTimings_always_verbose(out, took, took_loading, took_embed, verbose_timings) ==
    [out EXCEPT !.took =
        DictSet(DictSet(DictSet(out.took, "total_ms", took * 1000),
                        "read_imgs_ms", took_loading * 1000),
                "embed_all_ms", took_embed * 1000)]

\* lines 201-204
WithTimings(out, took, took_loading, took_embed, verbose_timings) ==
    LET t1 == DictSet(out.took, "total_ms", took * 1000)
        t2 == IF verbose_timings
              THEN DictSet(DictSet(t1, "read_imgs_ms", took_loading * 1000),
                           "embed_all_ms", took_embed * 1000)
              ELSE t1
    IN  [out EXCEPT !.took = t2]

\* The loop of embed is over: 170, then 199-206 of extract.
ExtractReturn(r) ==
    /\ pc[r] = "embed"
    /\ idx[r] > Len(images[r])
    /\ LET out == WithTimings(output[r], clock - tm[r].t0, tm[r].took_loading,
                              clock - tm[r].te0, opts[r].verbose_timings)
       IN  /\ output' = [output EXCEPT ![r] = out]
           /\ result' = [result EXCEPT ![r] = serialize(out, opts[r].api_ver)]
    /\ pc' = [pc EXCEPT ![r] = "done"]
    /\ UNCHANGED <<opts, images, idx, tm, consumed, modelLog, pairs, clock, sf, caught>>

(***************************************************************************)
(* Processing.embed_crops                                                  *)
(***************************************************************************)
\* __iterate_faces without the test of line 103: every crop is yielded.
iterate_faces_unfiltered(crops) ==
    [n \in 1..Len(crops) |-> Face(DictGet(crops[n], "data", None))]

\* __iterate_faces: the Face objects the generator yields, in order.
RECURSIVE iterate_faces(_)
iterate_faces(crops) ==
    IF crops = <<>>
    THEN <<>>
    ELSE IF DictGet(Head(crops), "traceback", None) = None
         THEN <<Face(DictGet(Head(crops), "data", None))>> \o iterate_faces(Tail(crops))
         ELSE iterate_faces(Tail(crops))

\* lines 119-120
CropLoadFailedRecord(image) ==
    [status |-> "failed", traceback |-> DictGet(image, "traceback", None)]

\* CropsExcept without line 128.
CropsExcept_status_kept(out) == DictSet(out, "traceback", FormatExc)

\* lines 125-129
CropsExcept(out) ==
    DictSet([out EXCEPT !.status = "failed"], "traceback", FormatExc)

\* lines 131-133
CropsTook(out, took) == [out EXCEPT !.took_ms = Some(took * 1000)]

\* The lazy stream process_faces returns hands out one analysed face per crop
\* it pulls from the iterator, in the iterator's order: it can yield its next
\* face only while the iterator has a crop for it.
StreamCanYield(r) == consumed[r] + 1 <= Len(iterate_faces(images[r]))

\* What the stream may yield as one analysed face.
AnalysedFaces == {CropFace, DetFace, BrokenFace}

\* self.model.process_faces(iterator, ...) returns the lazy stream: 112-114.
ProcessFacesReturn(r) ==
    /\ pc[r] = "embed_crops"
    /\ pc' = [pc EXCEPT ![r] = "crops_loop"]
    /\ consumed' = [consumed EXCEPT ![r] = 0]
    /\ UNCHANGED <<opts, images, idx, output, tm, result, modelLog, pairs, clock, sf, caught>>

\* self.model.process_faces raises when invoked: line 113 is in no try block.
ProcessFacesRaise(r) ==
    /\ pc[r] = "embed_crops"
    /\ pc' = [pc EXCEPT ![r] = "raised"]
    /\ UNCHANGED <<opts, images, idx, output, tm, consumed, result, modelLog, pairs, clock, sf, caught>>

\* CropsLoadFailure that also marks the whole batch as failed.
CropsLoadFailure_marks_batch(r) ==
    /\ pc[r] = "crops_loop"
    /\ idx[r] <= Len(images[r])
    /\ DictGet(images[r][idx[r]], "traceback", None) /= None
    /\ output' = [output EXCEPT ![r] =
                    [AppendData(@, CropLoadFailedRecord(images[r][idx[r]]))
                        EXCEPT !.status = "failed"]]
    /\ pairs' = [pairs EXCEPT ![r] =
                   Append(@, [input |-> idx[r], pos |-> 0, face |-> None])]
    /\ idx' = [idx EXCEPT ![r] = @ + 1]
    /\ UNCHANGED <<pc, opts, images, tm, consumed, result, modelLog, clock, sf, caught>>

\* One iteration on an input that carries a load traceback: 118-120, 124.
CropsLoadFailure(r) ==
    /\ pc[r] = "crops_loop"
    /\ idx[r] <= Len(images[r])
    /\ DictGet(images[r][idx[r]], "traceback", None) /= None
    /\ output' = [output EXCEPT ![r] =
                    AppendData(@, CropLoadFailedRecord(images[r][idx[r]]))]
    /\ pairs' = [pairs EXCEPT ![r] =
                   Append(@, [input |-> idx[r], pos |-> 0, face |-> None])]
    /\ idx' = [idx EXCEPT ![r] = @ + 1]
    /\ UNCHANGED <<pc, opts, images, tm, consumed, result, modelLog, clock, sf, caught>>

\* CropsNextFace passing the caller's return_face_data and return_landmarks
\* to serialize_face instead of the literals of lines 122-123.
CropsNextFace_caller_flags(r, face) ==
    /\ pc[r] = "crops_loop"
    /\ idx[r] <= Len(images[r])
    /\ DictGet(images[r][idx[r]], "traceback", None) = None
    /\ StreamCanYield(r)
    /\ clock' = clock + 1
    /\ consumed' = [consumed EXCEPT ![r] = @ + 1]
    /\ IF SerializeFaceRaises(face, opts[r].return_face_data, opts[r].return_landmarks)
       THEN LET out == CropsTook(CropsExcept(output[r]), clock' - tm[r].t0_crops)
            IN  /\ output' = [output EXCEPT ![r] = out]
                /\ result' = [result EXCEPT ![r] = out]
                /\ pc' = [pc EXCEPT ![r] = "done"]
                /\ caught' = [caught EXCEPT ![r] = idx[r]]
                /\ UNCHANGED <<idx, pairs>>
       ELSE /\ output' = [output EXCEPT ![r] =
                            AppendData(@, serialize_face(face, opts[r].return_face_data,
                                                         opts[r].return_landmarks))]
            /\ pairs' = [pairs EXCEPT ![r] =
                           Append(@, [input |-> idx[r], pos |-> consumed'[r],
                                      face |-> Some(face)])]
            /\ idx' = [idx EXCEPT ![r] = @ + 1]
            /\ UNCHANGED <<pc, result, caught>>
    /\ UNCHANGED <<opts, images, tm, modelLog, sf>>

\* One iteration on a loaded input for which next(faces) yields face: the
\* stream hands out its next analysed face, made from the next crop of
\* __iterate_faces.  122-124, or 125-133 when serialize_face raises.
CropsNextFace(r, face) ==
    /\ pc[r] = "crops_loop"
    /\ idx[r] <= Len(images[r])
    /\ DictGet(images[r][idx[r]], "traceback", None) = None
    /\ StreamCanYield(r)
    /\ clock' = clock + 1
    /\ consumed' = [consumed EXCEPT ![r] = @ + 1]
    /\ IF SerializeFaceRaises(face, FALSE, FALSE)
       THEN LET out == CropsTook(CropsExcept(output[r]), clock' - tm[r].t0_crops)
            IN  /\ output' = [output EXCEPT ![r] = out]
                /\ result' = [result EXCEPT ![r] = out]
                /\ pc' = [pc EXCEPT ![r] = "done"]
                /\ caught' = [caught EXCEPT ![r] = idx[r]]
                /\ UNCHANGED <<idx, pairs>>
       ELSE /\ output' = [output EXCEPT ![r] =
                            AppendData(@, serialize_face(face, FALSE, FALSE))]
            /\ pairs' = [pairs EXCEPT ![r] =
                           Append(@, [input |-> idx[r], pos |-> consumed'[r],
                                      face |-> Some(face)])]
            /\ idx' = [idx EXCEPT ![r] = @ + 1]
            /\ UNCHANGED <<pc, result, caught>>
    /\ UNCHANGED <<opts, images, tm, modelLog, sf>>

\* One iteration on a loaded input for which next(faces) raises, an error of
\* the model or StopIteration of a stream that ended early: 125-133.
CropsNextRaise(r) ==
    /\ pc[r] = "crops_loop"
    /\ idx[r] <= Len(images[r])
    /\ DictGet(images[r][idx[r]], "traceback", None) = None
    /\ clock' = clock + 1
    /\ LET out == CropsTook(CropsExcept(output[r]), clock' - tm[r].t0_crops)
       IN  /\ output' = [output EXCEPT ![r] = out]
           /\ result' = [result EXCEPT ![r] = out]
    /\ pc' = [pc EXCEPT ![r] = "done"]
    /\ caught' = [caught EXCEPT ![r] = idx[r]]
    /\ UNCHANGED <<opts, images, idx, tm, consumed, modelLog, pairs, sf>>

\* The loop is over: 131-133, and 190-191 of extract.
CropsReturn(r) ==
    /\ pc[r] = "crops_loop"
    /\ idx[r] > Len(images[r])
    /\ LET out == CropsTook(output[r], clock - tm[r].t0_crops)
       IN  /\ output' = [output EXCEPT ![r] = out]
           /\ result' = [result EXCEPT ![r] = out]
    /\ pc' = [pc EXCEPT ![r] = "done"]
    /\ UNCHANGED <<opts, images, idx, tm, consumed, modelLog, pairs, clock, sf, caught>>

(***************************************************************************)
(* Specification of the orchestration                                      *)
(***************************************************************************)
Next ==
    \/ \E r \in DOMAIN pc : ExtractCall(r)
    \/ \E r \in DOMAIN pc : \E imgs \in ImageLists : GetImagesReturn(r, imgs)
    \/ \E r \in DOMAIN pc : GetImagesRaise(r)
    \/ \E r \in DOMAIN pc : EmbedLoadFailure(r)
    \/ \E r \in DOMAIN pc : EmbedModelCall(r)
    \/ \E r \in DOMAIN pc : \E faces \in FaceLists : ModelGetReturn(r, faces)
    \/ \E r \in DOMAIN pc : ModelGetRaise(r)
    \/ \E r \in DOMAIN pc : ExtractReturn(r)
    \/ \E r \in DOMAIN pc : ProcessFacesReturn(r)
    \/ \E r \in DOMAIN pc : ProcessFacesRaise(r)
    \/ \E r \in DOMAIN pc : CropsLoadFailure(r)
    \/ \E r \in DOMAIN pc : \E face \in AnalysedFaces : CropsNextFace(r, face)
    \/ \E r \in DOMAIN pc : CropsNextRaise(r)
    \/ \E r \in DOMAIN pc : CropsReturn(r)

Spec == Init /\ [][Next]_vars

(***************************************************************************)
(* Properties of the batch path (Processing.embed)                         *)
(***************************************************************************)
\* Call r went down the batch path and embed has started.
InEmbed(r) == pc[r] \in {"embed", "model_get", "done"} /\ ~opts[r].embed_only

\* Call r went down the batch path and has returned.
EmbedReturned(r) == pc[r] = "done" /\ ~opts[r].embed_only

LoadFailed(image) == image.traceback /= None

\* The completed calls of model.get that call r made for its image i.
CallsFor(r, i) ==
    {k \in 1..Len(modelLog[r]) :
        modelLog[r][k].image = i /\ modelLog[r][k].outcome /= "pending"}

\* The position of the first face of fs whose conversion raises, Len(fs) + 1
\* when none does.
FirstRaising(r, fs) ==
    LET bad == {n \in 1..Len(fs) :
                  SerializeFaceRaises(fs[n], opts[r].return_face_data,
                                      opts[r].return_landmarks)}
    IN  IF bad = {} THEN Len(fs) + 1 ELSE CHOOSE n \in bad : \A m \in bad : n <= m

\* Entry e is what image i of call r yields: the load traceback of the image,
\* or the faces the model returned for it, converted in order.
EntryIsResultOf(r, e, i) ==
    IF LoadFailed(images[r][i])
    THEN /\ "traceback" \in DOMAIN e
         /\ e.traceback = images[r][i].traceback
         /\ e.faces = <<>>
    ELSE \E k \in CallsFor(r, i) :
            LET call == modelLog[r][k]
            IN  /\ call.arg = images[r][i].data
                /\ CallsFor(r, i) = {k}
                /\ IF call.outcome = "raised"
                   THEN e.faces = <<>> /\ e.traceback = FormatExc
                   ELSE LET stop == FirstRaising(r, call.faces)
                        IN  /\ Len(e.faces) = stop - 1
                            /\ \A n \in 1..(stop - 1) :
                                  e.faces[n] = serialize_face(call.faces[n],
                                                  opts[r].return_face_data,
                                                  opts[r].return_landmarks)
                            /\ ("traceback" \in DOMAIN e) = (stop <= Len(call.faces))

\* C1: the data list embed returns has exactly one entry per input image, and
\* entry i is the result of images[i]: its load traceback, or the faces of the
\* model call made on images[i]; nothing is dropped, duplicated or reordered.
C1_BatchOrdering ==
    \A r \in DOMAIN pc :
        EmbedReturned(r) =>
            /\ Len(output[r].data) = Len(images[r])
            /\ \A i \in 1..Len(images[r]) :
                  EntryIsResultOf(r, output[r].data[i], i)

\* A batch whose first image failed to load and whose second image got faces.
C1_Witness ==
    \E r \in DOMAIN pc :
        /\ EmbedReturned(r)
        /\ Len(images[r]) = 2
        /\ LoadFailed(images[r][1])
        /\ ~LoadFailed(images[r][2])
        /\ Len(output[r].data[2].faces) = 2

\* Image j of call r fails on its own account: it did not load, its model
\* call raised, or the conversion of one of its faces raised.
OwnFailure(r, j) ==
    \/ LoadFailed(images[r][j])
    \/ \E k \in CallsFor(r, j) :
          \/ modelLog[r][k].outcome = "raised"
          \/ FirstRaising(r, modelLog[r][k].faces) <= Len(modelLog[r][k].faces)

\* C2: in every state of embed the status of each entry is decided by its own
\* image alone, whatever happened to the other images, and a failure does not
\* end the loop: on return every image has its entry.
C2_BatchIsolation ==
    \A r \in DOMAIN pc :
        InEmbed(r) =>
            /\ \A j \in 1..Len(output[r].data) :
                  output[r].data[j].status = IF OwnFailure(r, j) THEN "failed" ELSE "ok"
            /\ pc[r] = "done" => Len(output[r].data) = Len(images[r])

\* The model call of the first image raised and the second image is ok.
C2_Witness ==
    \E r \in DOMAIN pc :
        /\ EmbedReturned(r)
        /\ Len(images[r]) = 2
        /\ \E k \in CallsFor(r, 1) : modelLog[r][k].outcome = "raised"
        /\ output[r].data[1].status = "failed"
        /\ output[r].data[2].status = "ok"

\* C3 (as claimed): no call of extract, embed or embed_crops ends by raising.
C3_NoExceptionEscapes == \A r \in DOMAIN pc : pc[r] /= "raised"

\* C4: an image that carries a load traceback is never handed to model.get,
\* and its entry is 'failed' with that traceback.
C4_LoadFailureNoModelCall ==
    \A r \in DOMAIN pc :
        InEmbed(r) =>
            \A i \in 1..Len(images[r]) :
                LoadFailed(images[r][i]) =>
                    /\ \A k \in 1..Len(modelLog[r]) : modelLog[r][k].image /= i
                    /\ i <= Len(output[r].data) =>
                          /\ output[r].data[i].status = "failed"
                          /\ output[r].data[i].traceback = images[r][i].traceback

\* A returned batch with a load failure after an image the model was given.
C4_Witness ==
    \E r \in DOMAIN pc :
        /\ EmbedReturned(r)
        /\ Len(images[r]) = 2
        /\ Len(modelLog[r]) = 1
        /\ LoadFailed(images[r][2])
        /\ output[r].data[2].status = "failed"

(***************************************************************************)
(* Properties of the Serializer, as extract applies it to embed's batch    *)
(***************************************************************************)
\* C5: with api_ver '1' the caller gets exactly the list of the 'faces' lists
\* of the batch, one per entry and in the order of the entries.
C5_LegacyProjection ==
    \A r \in DOMAIN pc :
        EmbedReturned(r) /\ opts[r].api_ver = "1" =>
            /\ Len(result[r]) = Len(output[r].data)
            /\ \A i \in 1..Len(output[r].data) : result[r][i] = output[r].data[i].faces

\* A legacy response for an image without faces followed by one with faces.
C5_Witness ==
    \E r \in DOMAIN pc :
        /\ EmbedReturned(r)
        /\ opts[r].api_ver = "1"
        /\ Len(images[r]) = 2
        /\ output[r].data[1].status = "failed"
        /\ result[r][1] = <<>>
        /\ Len(result[r][2]) = 1

\* C6: with every api_ver other than '1', '2' and unknown strings alike, the
\* caller gets the batch itself, unchanged.
C6_IdentityFallback ==
    \A r \in DOMAIN pc :
        EmbedReturned(r) /\ opts[r].api_ver /= "1" => result[r] = output[r]

\* An unknown version answered with a batch of a failed and an ok entry.
C6_Witness ==
    \E r \in DOMAIN pc :
        /\ EmbedReturned(r)
        /\ opts[r].api_ver = "3"
        /\ Len(images[r]) = 2
        /\ result[r].data[1].status = "failed"
        /\ result[r].data[2].status = "ok"
        /\ "total_ms" \in DOMAIN result[r].took

(***************************************************************************)
(* Properties of the embedding-only path (Processing.embed_crops)          *)
(***************************************************************************)
\* Call r went down the embedding-only path and has returned.
CropsReturned(r) == pc[r] = "done" /\ opts[r].embed_only

\* How many of the first i inputs of call r loaded.
LoadedUpTo(r, i) == Cardinality({j \in 1..i : ~LoadFailed(images[r][j])})

\* C7: when embed_crops catches no exception, data has one entry per input;
\* the entry of a failed input is its load-failure record and the stream was
\* not advanced for it; the entry of the k-th loaded input is the record of
\* the k-th face of the stream, which the model made from that input's crop.
C7_CropsAlignment ==
    \A r \in DOMAIN pc :
        CropsReturned(r) /\ caught[r] = 0 =>
            /\ Len(output[r].data) = Len(images[r])
            /\ Len(pairs[r]) = Len(images[r])
            /\ consumed[r] = LoadedUpTo(r, Len(images[r]))
            /\ \A i \in 1..Len(images[r]) :
                  /\ pairs[r][i].input = i
                  /\ IF LoadFailed(images[r][i])
                     THEN /\ pairs[r][i].pos = 0
                          /\ output[r].data[i] =
                                [status |-> "failed", traceback |-> images[r][i].traceback]
                     ELSE /\ pairs[r][i].pos = LoadedUpTo(r, i)
                          /\ iterate_faces(images[r])[pairs[r][i].pos].facedata
                                = images[r][i].data
                          /\ output[r].data[i] =
                                serialize_face(pairs[r][i].face[1], FALSE, FALSE)

\* Crops returned for a failed input followed by two loaded ones.
C7_Witness ==
    \E r \in DOMAIN pc :
        /\ CropsReturned(r)
        /\ caught[r] = 0
        /\ Len(images[r]) >= 2
        /\ LoadFailed(images[r][1])
        /\ ~LoadFailed(images[r][2])
        /\ consumed[r] = Len(images[r]) - 1

\* C8: when embed_crops catches an exception while handling input k, the
\* result is one failure: status 'failed' with the trace, the entries of the
\* inputs before k and nothing of k or of any later input.
C8_CropsWholeBatchFailure ==
    \A r \in DOMAIN pc :
        CropsReturned(r) /\ caught[r] > 0 =>
            /\ result[r] = output[r]
            /\ output[r].status = "failed"
            /\ "traceback" \in DOMAIN output[r]
            /\ output[r].traceback = FormatExc
            /\ Len(output[r].data) = caught[r] - 1
            /\ Len(pairs[r]) = caught[r] - 1
            /\ consumed[r] <= LoadedUpTo(r, caught[r])

\* The first of two loaded inputs raised: the second was never handled.
C8_Witness ==
    \E r \in DOMAIN pc :
        /\ CropsReturned(r)
        /\ caught[r] = 1
        /\ Len(images[r]) = 2
        /\ ~LoadFailed(images[r][2])
        /\ output[r].data = <<>>
        /\ output[r].status = "failed"

(***************************************************************************)
(* serialize_face on its own: specification SpecFace                       *)
(***************************************************************************)
\* The embedding attributes are set together by the face model.
Embeddings ==
    {[embedding_norm |-> None, normed_embedding |-> None],
     [embedding_norm |-> Some(0), normed_embedding |-> Some(<<0, 0>>)],
     [embedding_norm |-> Some(2), normed_embedding |-> Some(<<6, 8>>)]}

\* Every combination of the optional attributes of a Face being absent,
\* present, and (for the numbers serialize_face tests) present and zero.
AllFaces ==
    {[num_det |-> Some(0), det_score |-> ds, bbox |-> bb, landmark |-> lm,
      gender |-> g, age |-> a, mask_prob |-> mp,
      embedding_norm |-> e.embedding_norm, normed_embedding |-> e.normed_embedding,
      facedata |-> fd] :
        ds \in {None, Some(0), Some(95)},
        bb \in {None, Some(<<106, 100, 504, 600>>)},
        lm \in {None, Some(Landmarks5)},
        g \in {None, Some(1)},
        a \in {None, Some(30)},
        mp \in {None, Some(0), Some(10)},
        e \in Embeddings,
        fd \in {None, Some("crop")}}

InitFace ==
    /\ pc = <<>>
    /\ opts = <<>>
    /\ images = <<>>
    /\ idx = <<>>
    /\ output = <<>>
    /\ tm = <<>>
    /\ consumed = <<>>
    /\ result = <<>>
    /\ modelLog = <<>>
    /\ pairs = <<>>
    /\ caught = <<>>
    /\ clock = 0
    /\ \E f \in AllFaces, rfd \in BOOLEAN, rl \in BOOLEAN :
          sf = [state |-> "called", face |-> f, return_face_data |-> rfd,
                return_landmarks |-> rl]

\* serialize_face runs to its return statement.
SerializeFaceReturn ==
    /\ sf.state = "called"
    /\ ~SerializeFaceRaises(sf.face, sf.return_face_data, sf.return_landmarks)
    /\ sf' = [state |-> "returned", face |-> sf.face,
              return_face_data |-> sf.return_face_data,
              return_landmarks |-> sf.return_landmarks,
              out |-> serialize_face(sf.face, sf.return_face_data, sf.return_landmarks)]
    /\ UNCHANGED <<pc, opts, images, idx, output, tm, consumed, result, modelLog,
                   pairs, caught, clock>>

\* One of the statements of serialize_face raises.
SerializeFaceRaise ==
    /\ sf.state = "called"
    /\ SerializeFaceRaises(sf.face, sf.return_face_data, sf.return_landmarks)
    /\ sf' = [sf EXCEPT !.state = "raised"]
    /\ UNCHANGED <<pc, opts, images, idx, output, tm, consumed, result, modelLog,
                   pairs, caught, clock>>

NextFace == SerializeFaceReturn \/ SerializeFaceRaise

SpecFace == InitFace /\ [][NextFace]_vars

\* C9: the record of a face without detection score has prob, bbox, size and
\* landmarks all None, whatever the flags and whatever else the face carries.
C9_NoScoreNoGeometry ==
    sf.state = "returned" /\ sf.face.det_score = None =>
        /\ sf.out.prob = None
        /\ sf.out.bbox = None
        /\ sf.out.size = None
        /\ sf.out.landmarks = None

\* A face without score but with box and landmarks, landmarks requested.
C9_Witness ==
    /\ sf.state = "returned"
    /\ sf.face.det_score = None
    /\ sf.face.bbox /= None
    /\ sf.face.landmark /= None
    /\ sf.return_landmarks
    /\ sf.return_face_data

(***************************************************************************)
(* Face data                                                               *)
(***************************************************************************)
\* The face records in the value call r returned down the batch path.
ReturnedFaceRecords(r) ==
    IF opts[r].api_ver = "1"
    THEN {result[r][i][n] : <<i, n>> \in
            {p \in (1..Len(result[r])) \X (1..MaxFaces) : p[2] <= Len(result[r][p[1]])}}
    ELSE {result[r].data[i].faces[n] : <<i, n>> \in
            {p \in (1..Len(result[r].data)) \X (1..MaxFaces) :
                p[2] <= Len(result[r].data[p[1]].faces)}}

\* C10: without return_face_data no face record of embed or extract has the
\* 'facedata' key, and no record of embed_crops has it whatever was requested.
C10_FaceDataOptIn ==
    \A r \in DOMAIN pc :
        /\ InEmbed(r) /\ ~opts[r].return_face_data =>
              \A i \in 1..Len(output[r].data) :
                  \A n \in 1..Len(output[r].data[i].faces) :
                      "facedata" \notin DOMAIN output[r].data[i].faces[n]
        /\ EmbedReturned(r) /\ ~opts[r].return_face_data =>
              \A rec \in ReturnedFaceRecords(r) : "facedata" \notin DOMAIN rec
        /\ opts[r].embed_only /\ pc[r] \in {"crops_loop", "done"} =>
              \A i \in 1..Len(output[r].data) :
                  "facedata" \notin DOMAIN output[r].data[i]

\* A face that carries its crop was converted without return_face_data.
C10_Witness ==
    \E r \in DOMAIN pc :
        /\ EmbedReturned(r)
        /\ ~opts[r].return_face_data
        /\ \E k \in 1..Len(modelLog[r]) :
              /\ modelLog[r][k].outcome = "returned"
              /\ Len(modelLog[r][k].faces) > 0
              /\ modelLog[r][k].faces[1].facedata /= None
              /\ Len(output[r].data[modelLog[r][k].image].faces) > 0

(***************************************************************************)
(* Totality and presence rules of serialize_face (specification SpecFace)  *)
(***************************************************************************)
\* C11 (as claimed): serialize_face returns a record for every face and
\* every combination of the flags; it never ends by raising.
C11_BuilderTotal == sf.state /= "raised"

\* C17 (as claimed): in the returned record prob, bbox and size are non-null
\* exactly when the face has a detection score, mask_prob exactly when it has
\* a mask probability, vec and norm exactly when it has an embedding, a value
\* of 0 counting as present.
C17_PresenceRules ==
    sf.state = "returned" =>
        /\ (sf.out.prob /= None) = (sf.face.det_score /= None)
        /\ (sf.out.bbox /= None) = (sf.face.det_score /= None)
        /\ (sf.out.size /= None) = (sf.face.det_score /= None)
        /\ (sf.out.mask_prob /= None) = (sf.face.mask_prob /= None)
        /\ (sf.out.vec /= None) = (sf.face.embedding_norm /= None)
        /\ (sf.out.norm /= None) = (sf.face.embedding_norm /= None)

(***************************************************************************)
(* Entries of the batch path                                               *)
(***************************************************************************)
\* C13 (as claimed): every 'failed' entry of embed has an empty faces list.
C13_FailedEntriesNoFaces ==
    \A r \in DOMAIN pc :
        InEmbed(r) =>
            \A i \in 1..Len(output[r].data) :
                output[r].data[i].status = "failed" => output[r].data[i].faces = <<>>

\* C14: every entry embed appends has status 'ok' or 'failed', never the
\* initial '', and has the 'traceback' key exactly when it is 'failed'.
C14_StatusWellFormed ==
    \A r \in DOMAIN pc :
        InEmbed(r) =>
            \A i \in 1..Len(output[r].data) :
                /\ output[r].data[i].status \in {"ok", "failed"}
                /\ ("traceback" \in DOMAIN output[r].data[i])
                      = (output[r].data[i].status = "failed")

\* A returned batch with an ok entry, then an entry failed by an exception.
C14_Witness ==
    \E r \in DOMAIN pc :
        /\ EmbedReturned(r)
        /\ Len(images[r]) = 2
        /\ output[r].data[1].status = "ok"
        /\ output[r].data[2].status = "failed"
        /\ output[r].data[2].traceback = FormatExc

\* C15: a call of model.get is outstanding only while embed is suspended on
\* it; it is then the last call made, every earlier call has completed, and
\* the entries of all the images before its image have been appended, each
\* with its faces built.  So one embed has at most one call outstanding.
C15_StrictSequencing ==
    \A r \in DOMAIN pc :
        InEmbed(r) =>
            /\ \A k \in 1..Len(modelLog[r]) :
                  modelLog[r][k].outcome = "pending" =>
                      /\ pc[r] = "model_get"
                      /\ k = Len(modelLog[r])
                      /\ modelLog[r][k].image = idx[r]
                      /\ Len(output[r].data) = modelLog[r][k].image - 1
            /\ \A k \in 1..Len(modelLog[r]) : \A l \in 1..Len(modelLog[r]) :
                  k < l => modelLog[r][k].image < modelLog[r][l].image
            /\ pc[r] = "model_get" =>
                  /\ Len(modelLog[r]) > 0
                  /\ modelLog[r][Len(modelLog[r])].outcome = "pending"

\* The call for the second image is outstanding, the first image's call has
\* returned and its entry, with its faces, is in the list.
C15_Witness ==
    \E r \in DOMAIN pc :
        /\ pc[r] = "model_get"
        /\ Len(modelLog[r]) = 2
        /\ modelLog[r][1].outcome = "returned"
        /\ modelLog[r][2].outcome = "pending"
        /\ Len(output[r].data) = 1
        /\ Len(output[r].data[1].faces) = 2

(***************************************************************************)
(* Timing envelope of extract                                              *)
(***************************************************************************)
\* C18: down the batch path output['took'] is empty until embed has handled
\* every image; on return it has 'total_ms', and it has 'read_imgs_ms' and
\* 'embed_all_ms' exactly when verbose_timings is true.
C18_TimingEnvelope ==
    \A r \in DOMAIN pc :
        InEmbed(r) =>
            IF pc[r] = "done"
            THEN /\ Len(output[r].data) = Len(images[r])
                 /\ "total_ms" \in DOMAIN output[r].took
                 /\ ("read_imgs_ms" \in DOMAIN output[r].took) = opts[r].verbose_timings
                 /\ ("embed_all_ms" \in DOMAIN output[r].took) = opts[r].verbose_timings
            ELSE DOMAIN output[r].took = {}

\* A returned batch of two images without verbose timings.
C18_Witness ==
    \E r \in DOMAIN pc :
        /\ EmbedReturned(r)
        /\ ~opts[r].verbose_timings
        /\ Len(images[r]) = 2
        /\ DOMAIN output[r].took = {"total_ms"}
        /\ output[r].took.total_ms >= 2000

(***************************************************************************)
(* embed_only mode of extract                                              *)
(***************************************************************************)
\* The entry embed_crops appends for the input that history entry p records:
\* it depends on the input and on the face the stream yielded, on no option.
CropsEntryOf(r, p) ==
    IF p.face = None
    THEN CropLoadFailedRecord(images[r][p.input])
    ELSE serialize_face(p.face[1], FALSE, FALSE)

\* C19: in embed_only mode extract returns the dict of embed_crops itself,
\* whatever api_ver is: its keys are took_ms, data, status and possibly
\* traceback, there is no 'took', and every entry is what the input and the
\* yielded face alone determine, so return_face_data, return_landmarks and
\* verbose_timings have no effect.
C19_EmbedOnlyBypass ==
    \A r \in DOMAIN pc :
        CropsReturned(r) =>
            /\ result[r] = output[r]
            /\ {"took_ms", "data", "status"} \subseteq DOMAIN result[r]
            /\ DOMAIN result[r] \subseteq {"took_ms", "data", "status", "traceback"}
            /\ result[r].took_ms /= None
            /\ Len(result[r].data) = Len(pairs[r])
            /\ \A i \in 1..Len(result[r].data) :
                  result[r].data[i] = CropsEntryOf(r, pairs[r][i])

\* An embed_only call with api_ver '1' and every flag set has returned a face
\* that has landmarks and a crop: the record has neither.
C19_Witness ==
    \E r \in DOMAIN pc :
        /\ CropsReturned(r)
        /\ opts[r].api_ver = "1"
        /\ opts[r].return_face_data /\ opts[r].return_landmarks /\ opts[r].verbose_timings
        /\ Len(result[r].data) = 2
        /\ pairs[r][2].face = Some(DetFace)
        /\ result[r].data[2].landmarks = None
        /\ "facedata" \notin DOMAIN result[r].data[2]

\* C20: when embed_crops has returned, its top-level status is 'failed', and
\* it has a 'traceback', exactly when the except clause ran; an input that
\* failed to load gives the entry {status: 'failed', traceback} and leaves the
\* top-level status alone, and the record of a loaded input has no 'status'.
C20_CropsStatus ==
    \A r \in DOMAIN pc :
        CropsReturned(r) =>
            /\ output[r].status = (IF caught[r] > 0 THEN "failed" ELSE "ok")
            /\ ("traceback" \in DOMAIN output[r]) = (caught[r] > 0)
            /\ \A i \in 1..Len(output[r].data) :
                  IF LoadFailed(images[r][i])
                  THEN output[r].data[i] =
                          [status |-> "failed", traceback |-> images[r][i].traceback]
                  ELSE "status" \notin DOMAIN output[r].data[i]

\* A returned batch of a crop that failed to load and a crop that was
\* analysed, with no exception caught: the top-level status is 'ok'.
C20_Witness ==
    \E r \in DOMAIN pc :
        /\ CropsReturned(r)
        /\ caught[r] = 0
        /\ Len(output[r].data) = 2
        /\ LoadFailed(images[r][1])
        /\ ~LoadFailed(images[r][2])
        /\ output[r].data[1].status = "failed"
        /\ output[r].status = "ok"

(***************************************************************************)
(* Default API version                                                     *)
(***************************************************************************)
\* C12 (as claimed): when the caller passes no API version, the serializer
\* chosen is the v2 one, for Serializer.serialize and for extract, and extract
\* on the batch path returns the batch it built, unchanged.
C12_DefaultIsV2 ==
    \A r \in DOMAIN pc :
        (EmbedReturned(r) /\ opts[r].api_ver_arg = None) =>
            /\ get_serializer(SerializeDefaultApiVer) = "_serializer_v2"
            /\ get_serializer(opts[r].api_ver) = "_serializer_v2"
            /\ result[r] = output[r]

(***************************************************************************)
(* Two calls of extract in progress on one Processing instance             *)
(***************************************************************************)
MaxConcImages == 2

MaxConcImages2 == 1

ConcReqs == {1, 2}

\* How many images the batch of call r has at most.
ConcBatchSize(r) == IF r = 1 THEN MaxConcImages ELSE MaxConcImages2

\* Descriptor i of call r: the two calls are given different images.
ConcDescriptor(r, i) == 10 * r + i

\* The lists get_images may return to call r.
ConcImageLists(r) ==
    UNION {{[i \in 1..n |-> IF i \in ok THEN LoadedImage(ConcDescriptor(r, i))
                                        ELSE FailedImage(ConcDescriptor(r, i))] :
              ok \in SUBSET (1..n)} : n \in 0..ConcBatchSize(r)}

\* The face the images of call r show.
ConcFace(r) == IF r = 1 THEN DetFace ELSE BareFace

\* What model.get may return for an image of call r: the face it shows.
ConcFaceLists(r) == {<<ConcFace(r)>>}

\* Both calls go down the batch path and ask for the v2 envelope.
ConcOptions ==
    [embed_only |-> FALSE, return_face_data |-> FALSE, return_landmarks |-> FALSE,
     verbose_timings |-> FALSE, api_ver_arg |-> Some("2"), api_ver |-> "2"]

InitConc ==
    /\ pc = [r \in ConcReqs |-> "idle"]
    /\ opts = [r \in ConcReqs |-> ConcOptions]
    /\ images = [r \in ConcReqs |-> <<>>]
    /\ idx = [r \in ConcReqs |-> 1]
    /\ output = [r \in ConcReqs |-> None]
    /\ tm = [r \in ConcReqs |-> [t0 |-> 0, took_loading |-> 0, te0 |-> 0, t1 |-> 0, t0_crops |-> 0]]
    /\ consumed = [r \in ConcReqs |-> 0]
    /\ result = [r \in ConcReqs |-> None]
    /\ modelLog = [r \in ConcReqs |-> <<>>]
    /\ pairs = [r \in ConcReqs |-> <<>>]
    /\ caught = [r \in ConcReqs |-> 0]
    /\ clock = 0
    /\ sf = SfUnused

\* The event loop runs one call until its next await (get_images, model.get)
\* and resumes either call when what it awaits completes.
NextConc ==
    \/ \E r \in DOMAIN pc : ExtractCall(r)
    \/ \E r \in DOMAIN pc : \E imgs \in ConcImageLists(r) : GetImagesReturn(r, imgs)
    \/ \E r \in DOMAIN pc : GetImagesRaise(r)
    \/ \E r \in DOMAIN pc : EmbedLoadFailure(r)
    \/ \E r \in DOMAIN pc : EmbedModelCall(r)
    \/ \E r \in DOMAIN pc : \E faces \in ConcFaceLists(r) : ModelGetReturn(r, faces)
    \/ \E r \in DOMAIN pc : ModelGetRaise(r)
    \/ \E r \in DOMAIN pc : ExtractReturn(r)

SpecConc == InitConc /\ [][NextConc]_vars

\* Entry e holds nothing of another call: its load traceback is that of image
\* i of call r, and its faces are records of the face call r's images show.
OwnEntry(r, e, i) ==
    /\ LoadFailed(images[r][i]) =>
          e.traceback = FailedImage(ConcDescriptor(r, i)).traceback
    /\ \A n \in 1..Len(e.faces) : e.faces[n] = serialize_face(ConcFace(r), FALSE, FALSE)

\* C16: however two calls interleave at their awaits, the data each returns
\* has one entry per image of its own input, in its own order, entry i being
\* the result of its own image i, and model.get was given its own images only.
C16_RequestIndependence ==
    \A r \in DOMAIN pc :
        EmbedReturned(r) =>
            /\ result[r] = output[r]
            /\ Len(result[r].data) = Len(images[r])
            /\ \A i \in 1..Len(images[r]) :
                  /\ EntryIsResultOf(r, result[r].data[i], i)
                  /\ OwnEntry(r, result[r].data[i], i)
            /\ \A k \in 1..Len(modelLog[r]) :
                  modelLog[r][k].arg =
                      LoadedImage(ConcDescriptor(r, modelLog[r][k].image)).data

\* Both calls have returned after interleaving: call 2 was called while call 1
\* awaited model.get, and each had a model call that spanned a completion
\* of the other call (took_ms of 2000 or more for one call of model.get).
C16_Witness ==
    /\ DOMAIN pc = ConcReqs
    /\ EmbedReturned(1) /\ EmbedReturned(2)
    /\ Len(images[1]) = 2 /\ Len(images[2]) = 1
    /\ tm[2].t0 > tm[1].te0
    /\ \E i \in 1..2 : result[1].data[i].status = "ok"
                          /\ result[1].data[i].took_ms >= 2000
                          /\ result[1].data[i].faces = <<serialize_face(DetFace, FALSE, FALSE)>>
    /\ result[2].data[1].status = "ok"
    /\ result[2].data[1].took_ms >= 2000
    /\ result[2].data[1].faces = <<serialize_face(BareFace, FALSE, FALSE)>>

====
